---- MODULE Spec2Model ----
(***************************************************************************)
(* weasel.js: the popup lifecycle controller (lib/popup.ts) and the menu   *)
(* selection state machine with nested submenus (lib/menu.ts).             *)
(*                                                                         *)
(* A state is what the page holds between two callbacks of the event loop. *)
(* One action is one callback: a DOM event handler or a setTimeout         *)
(* callback, with everything it calls.  Handlers are written as operators  *)
(* from a state record to a state record, so that a handler that calls     *)
(* another (setSelected -> menuItemSelected callback -> ctl.close()) is    *)
(* the composition of the two.                                             *)
(***************************************************************************)
EXTENDS Integers, Sequences, FiniteSets, TLC

\* ---------------------------------------------------------------- bounds
MaxSessions == 2      \* OpenPopupHelper objects created in one behaviour
MaxTimers   == 2      \* setTimeout callbacks pending at once
MaxDepth    == 1      \* deepest submenu level the pointer/keys open (root = 0)
MaxActions  == 1      \* item actions invoked in one behaviour
MaxLen      == 4      \* children of the menu in the navigation specification
MaxToggles  == 4      \* toggle() calls in the toggling specification
MaxItems    == 3      \* options of the select element
MaxPresses  == 4      \* keys typed before the search term is cleared

\* ------------------------------------------------------ program constants
HoverDelay == 200     \* menuItemSubmenu: ctl.open({showDelay: 200})
TermTimeout == 1000   \* SelectKeyState.add: setTimeout(() => { this._term = ""; }, 1000)

VARIABLES
  opener,       \* what openFunc builds: "attach" (a plain element) or "menu" (a Menu)
  layout,       \* the children of every menu's <ul>, a sequence of kinds
  sess,         \* every OpenPopupHelper ever created, with its content; index = id
  holder,       \* PopupControl._holder, per controller: a session id or 0 (empty)
  openTimer,    \* PopupControl._openTimer, per controller: a timer id or 0
  closeTimer,   \* PopupControl._closeTimer, per controller: a timer id or 0
  ctlDisposed,  \* per controller: PopupControl.dispose() has run
  timers,       \* the pending setTimeout callbacks, in the order they were scheduled
  openClass,    \* per controller: its trigger element carries 'weasel-popup-open'
  focus,        \* document.activeElement
  actions,      \* number of menu item actions invoked so far
  hung,         \* a handler entered a loop that never exits
  keyState,     \* the select element's options and its SelectKeyState
  toggles,      \* number of toggle() calls made, in the toggling specification
  thrown,       \* where the last exception of a content producer surfaced ("": none)
  attach        \* options.attach of the root popup: where its content is to be mounted

vars == <<opener, layout, sess, holder, openTimer, closeTimer, ctlDisposed, timers,
          openClass, focus, actions, hung, keyState, toggles, thrown, attach>>

\* Controller 0 is the root PopupControl. Controller s > 0 is the PopupControl that
\* menuItemSubmenu created for the submenu item of the menu of session s.
Ctls == 0..MaxSessions

\* Places in the document: [sid |-> 0, idx |-> 0] is the page outside every popup,
\* [sid |-> 0, idx |-> 1] the root trigger element, [sid |-> s, idx |-> 0] the <ul>
\* of the menu of session s and [sid |-> s, idx |-> i] its i-th child.
Body        == [sid |-> 0, idx |-> 0]
RootTrigger == [sid |-> 0, idx |-> 1]
Loc(s, i)   == [sid |-> s, idx |-> i]

Undef == -1           \* an option that is not given: open(), close()
Delays == {0, HoverDelay}

\* The state record the handlers work on.
State == [sess |-> sess, holder |-> holder, openTimer |-> openTimer,
          closeTimer |-> closeTimer, ctlDisposed |-> ctlDisposed, timers |-> timers,
          openClass |-> openClass, focus |-> focus, actions |-> actions, hung |-> hung]

\* ------------------------------------------------------------ menu items
Kinds == {"item", "disabled", "divider", "hidden", "sub"}

isMenuItem(k)  == k \in {"item", "disabled", "hidden"}   \* built by menuItem(action, ...)
hasTabIndex(k) == k # "divider"       \* onKeyDown() gives every menu item a tabindex
isDisabled(k)  == k = "disabled"      \* classList.contains('disabled')

hasSubmenu == \E i \in 1..Len(layout) : layout[i] = "sub"
SubIdx == CHOOSE i \in 1..Len(layout) : layout[i] = "sub"

\* ------------------------------------------------------------ DOM shape
\* Every controller on the root trigger element.
TriggerIsRoot(o) == RootTrigger

\* The trigger element of a controller.
TriggerOf(o) == IF o = 0 THEN RootTrigger ELSE Loc(o, SubIdx)

\* The sessions whose content element contains the content of session s: s itself,
\* and, a submenu being attached to the wrapper of the menu that owns its item, the
\* sessions above it.
RECURSIVE Chain(_, _)
Chain(S, s) == IF s = 0 THEN {} ELSE {s} \cup Chain(S, S.sess[s].ctl)

\* content.contains(place)
contentContains(S, s, place) == place.sid # 0 /\ s \in Chain(S, place.sid)

\* triggerElem.contains(place)
triggerContains(S, s, place) == place = TriggerOf(S.sess[s].ctl)

\* The content of session s is in the document: it was appended to a container, and s
\* and every session above it are live.
RECURSIVE Attached(_, _)
Attached(S, s) ==
  /\ S.sess[s].live
  /\ S.sess[s].container # "null"
  /\ S.sess[s].ctl = 0 \/ Attached(S, S.sess[s].ctl)

\* elem.focus(): an element that is not in the document cannot take the focus.
focusElem(S, place) ==
  IF place.sid = 0 \/ Attached(S, place.sid) THEN [S EXCEPT !.focus = place] ELSE S

\* ---------------------------------------------------------------- timers
TimerIds(T) == {T[p].id : p \in 1..Len(T)}
FreshId(T) == CHOOSE i \in 1..(Len(T) + 1) :
                 i \notin TimerIds(T) /\ \A j \in 1..(i - 1) : j \in TimerIds(T)

\* setTimeout(callback, delay). kind names the callback, who the controller (or, for
\* the mount callback of a Menu, the session) it belongs to. why, from and late are
\* history: why is the caller that scheduled the timer, from the controller's session
\* at that moment, late whether the competing request (close() for an open timer,
\* open() for a close timer) was made while the timer was pending.
Timer(id, kind, who, delay, sel, from, why) ==
  [id |-> id, kind |-> kind, who |-> who, delay |-> delay, sel |-> sel,
   from |-> from, why |-> why, late |-> FALSE]

setTimeout(S, kind, who, delay, sel, from, why) ==
  [S EXCEPT !.timers = Append(@, Timer(FreshId(@), kind, who, delay, sel, from, why))]

clearTimeout(S, id) ==
  [S EXCEPT !.timers = SelectSeq(@, LAMBDA t : t.id # id)]

\* History only: the pending timers of one kind of controller o saw the competing call.
MarkLate(S, o, kind) ==
  [S EXCEPT !.timers = [p \in 1..Len(@) |->
      IF @[p].kind = kind /\ @[p].who = o THEN [@[p] EXCEPT !.late = TRUE] ELSE @[p]]]

\* The timer at position p may fire now: every timer scheduled before it with a delay
\* not larger than its own has fired.
CanFire(T, p) == \A q \in 1..(p - 1) : T[q].delay > T[p].delay

\* -------------------------------------------------------- Open Session
\* The disposers of a session in the order in which the constructor of OpenPopupHelper
\* registers them, each with the steps it takes: autoDispose(openFunc(...)); where
\* there is a container, onDispose(() => { onRemove.call(popupContent);
\* content.remove(); }), onRemove being a no-op for content that has none; onDispose(()
\* => popper.destroy()); setOpenClass(triggerElem); autoDispose(dom.onElem(document,
\* 'click', ...)).
Disposers(sn) ==
  << <<"popupContent">> >>
  \o (IF sn.container # "null"
      THEN << (IF sn.menu THEN <<"onRemove">> ELSE << >>) \o <<"remove">> >>
      ELSE << >>)
  \o << <<"popper">>, <<"openClass">>, <<"clickListener">> >>

\* Disposable.dispose(): the disposers are called last registered first; the result is
\* the steps taken, in order.
RECURSIVE callAndDispose(_)
callAndDispose(list) ==
  IF list = << >> THEN << >>
  ELSE list[Len(list)] \o callAndDispose(SubSeq(list, 1, Len(list) - 1))

RECURSIVE DisposeSession(_, _, _)
RECURSIVE HolderClear(_, _, _)
RECURSIVE DisposeCtl(_, _)

\* A disposal whose onRemove focuses the trigger wherever the focus is.
DisposeSessionStealsFocus(S, s, by) ==
  IF ~S.sess[s].live
  THEN [S EXCEPT !.sess[s].disposals = @ + 1]
  ELSE
    LET o  == S.sess[s].ctl
        \* the Holder that owns the session hears of a disposal from outside
        S1 == [S EXCEPT !.sess[s] =
                          LET sn == @
                          IN [sn EXCEPT !.live = FALSE,
                                        !.disposals = @ + 1,
                                        !.by = by,
                                        !.teardown = @ \o callAndDispose(Disposers(sn))],
                        !.holder[o] = IF @ = s THEN 0 ELSE @]
        \* the document click listener goes with live; setOpenClass's disposer; the
        \* listeners on the content (mouseover) go with domDispose(content)
        S2 == [S1 EXCEPT !.openClass[o] = FALSE, !.sess[s].armed = FALSE]
        \* onRemove, then content.remove()
        S3 == IF S2.sess[s].menu
              THEN [S2 EXCEPT !.focus = TriggerOf(o)]
              ELSE S2
        \* popupContent.dispose(): domDispose(content) disposes the controller that
        \* the submenu item owns (dom.autoDispose(ctl)); V is S3, evaluated once
    IN CHOOSE R \in {IF V.sess[s].menu /\ hasSubmenu THEN DisposeCtl(V, s) ELSE V : V \in {S3}} :
         TRUE

\* OpenPopupHelper.dispose(): the disposers run in the reverse order of registration.
\* Disposing an object that is already disposed is only logged by grainjs.
\* by is history: who disposed the session ("outside" its document click listener,
\* "replaced" Holder.autoDispose, "owner" the disposal of its controller, otherwise
\* the caller of the close() whose timer emptied the holder).
DisposeSession(S, s, by) ==
  IF ~S.sess[s].live
  THEN [S EXCEPT !.sess[s].disposals = @ + 1]
  ELSE
    LET o  == S.sess[s].ctl
        \* the Holder that owns the session hears of a disposal from outside
        S1 == [S EXCEPT !.sess[s] =
                          LET sn == @
                          IN [sn EXCEPT !.live = FALSE,
                                        !.disposals = @ + 1,
                                        !.by = by,
                                        !.teardown = @ \o callAndDispose(Disposers(sn))],
                        !.holder[o] = IF @ = s THEN 0 ELSE @]
        \* the document click listener goes with live; setOpenClass's disposer; the
        \* listeners on the content (mouseover) go with domDispose(content)
        S2 == [S1 EXCEPT !.openClass[o] = FALSE, !.sess[s].armed = FALSE]
        \* onRemove, then content.remove()
        S3 == IF S2.sess[s].menu /\ contentContains(S2, s, S2.focus)
              THEN [S2 EXCEPT !.focus = TriggerOf(o)]
              ELSE S2
        \* popupContent.dispose(): domDispose(content) disposes the controller that
        \* the submenu item owns (dom.autoDispose(ctl)); V is S3, evaluated once
    IN CHOOSE R \in {IF V.sess[s].menu /\ hasSubmenu THEN DisposeCtl(V, s) ELSE V : V \in {S3}} :
         TRUE

\* Holder.clear()
HolderClear(S, o, by) ==
  IF S.holder[o] = 0 THEN S
  ELSE DisposeSession([S EXCEPT !.holder[o] = 0], S.holder[o], by)

\* A controller whose disposal leaves the session of its holder alone.
DisposeCtlOnly(S, o) == [S EXCEPT !.ctlDisposed[o] = TRUE]

\* PopupControl.dispose(): disposes its Holder; its timers are left alone.
DisposeCtl(S, o) == HolderClear([S EXCEPT !.ctlDisposed[o] = TRUE], o, "owner")

\* options.attach is nothing ("none"), an element, or a selector that an ancestor of
\* the trigger matches or that none matches.
AttachOptions == {"none", "element", "matching", "unmatched"}

\* elem.closest(selector)
closest(selector) == IF selector = "matching" THEN "ancestor" ELSE "null"

\* _getContainer(elem, attachElem): the explicit element, the closest ancestor matching
\* the selector, or elem.parentNode.
getContainer(attachElem) ==
  IF attachElem \in {"matching", "unmatched"} THEN closest(attachElem)
  ELSE IF attachElem # "none" THEN attachElem ELSE "parent"

\* new OpenPopupHelper(...): openFunc builds the content, the content is appended to
\* the container, the trigger is marked and the document click listener installed.
\* prev and by are history: the session the holder held when this one was constructed,
\* and who disposed this one.
NewSession(o, lvl, sel, prev) ==
  [ctl |-> o, level |-> lvl, live |-> TRUE, disposals |-> 0, menu |-> opener = "menu",
   sel |-> 0, selClass |-> {}, armed |-> FALSE, selectOnOpen |-> sel,
   prev |-> prev, by |-> "", teardown |-> << >>,
   \* menuItemSubmenu attaches its menu to the wrapper of the menu that owns the item
   container |-> getContainer(IF o = 0 THEN attach ELSE "matching")]

\* A holder that takes the new object without disposing the one it holds.
HolderKeepsOld(S, o, s) == [S EXCEPT !.holder[o] = s]

\* Holder.autoDispose(obj): dispose what is held, then hold obj.
HolderAutoDispose(S, o, s) == [HolderClear(S, o, "replaced") EXCEPT !.holder[o] = s]

\* PopupControl._open, the callback of the open timer. OpenPopupHelper.create(holder,
\* ...) constructs the new session first and hands it to the holder afterwards.
popupOpen(S, o, sel) ==
  LET s   == Len(S.sess) + 1
      lvl == IF o = 0 THEN 0 ELSE S.sess[o].level + 1
      S1  == [S EXCEPT !.openTimer[o] = 0]
      S2  == [S1 EXCEPT !.sess = Append(@, NewSession(o, lvl, sel, S.holder[o]))]
      \* Menu's constructor: setTimeout(() => selectOnOpen ? nextIndex() : focus(), 0)
      S3  == IF opener = "menu" THEN setTimeout(S2, "mount", s, 0, sel, s, "Menu") ELSE S2
      S4  == [S3 EXCEPT !.openClass[o] = TRUE]
  IN HolderAutoDispose(S4, o, s)

\* PopupControl._open when openFunc throws: _openTimer is unset, the constructor of
\* OpenPopupHelper is left at its first statement after super() and wipeOnDispose(),
\* and create() never hands an object to the holder.
popupOpenThrows(S, o) == [S EXCEPT !.openTimer[o] = 0]

\* PopupControl._close, the callback of the close timer.
popupClose(S, o, why) == HolderClear([S EXCEPT !.closeTimer[o] = 0], o, why)

\* ----------------------------------------------------- Popup Controller
\* defaultTo(options.showDelay, this._showDelay); the controllers here are attached
\* with showDelay 0 and no hideDelay.
defaultTo(v, d) == IF v = Undef THEN d ELSE v

\* An open() that schedules an opening although the holder holds a session.
ctlOpenIgnoresHolder(S, o, showDelay, sel, reopen, why) ==
  LET d  == defaultTo(showDelay, 0)
      S1 == IF S.closeTimer[o] # 0
            THEN [clearTimeout(S, S.closeTimer[o]) EXCEPT !.closeTimer[o] = 0]
            ELSE S
      S2 == MarkLate(S1, o, "close")
  IN IF reopen \/ S2.openTimer[o] = 0
     THEN LET id == FreshId(S2.timers)
          IN [setTimeout(S2, "open", o, d, sel, S2.holder[o], why) EXCEPT !.openTimer[o] = id]
     ELSE S2

\* PopupControl.open(options, reopen); why names the caller.
ctlOpen(S, o, showDelay, sel, reopen, why) ==
  LET d  == defaultTo(showDelay, 0)
      S1 == IF S.closeTimer[o] # 0
            THEN [clearTimeout(S, S.closeTimer[o]) EXCEPT !.closeTimer[o] = 0]
            ELSE S
      S2 == MarkLate(S1, o, "close")
  IN IF reopen \/ (S2.holder[o] = 0 /\ S2.openTimer[o] = 0)
     THEN LET id == FreshId(S2.timers)
          IN [setTimeout(S2, "open", o, d, sel, S2.holder[o], why) EXCEPT !.openTimer[o] = id]
     ELSE S2

\* A close() that empties the holder at once when its delay is 0.
ctlCloseAtOnceWhenZero(S, o, delayMs, why) ==
  LET d  == defaultTo(delayMs, 0)
      S1 == IF S.openTimer[o] # 0
            THEN [clearTimeout(S, S.openTimer[o]) EXCEPT !.openTimer[o] = 0]
            ELSE S
      S2 == MarkLate(S1, o, "open")
      id == FreshId(S2.timers)
  IN IF d = 0 THEN popupClose(S2, o, why)
     ELSE [setTimeout(S2, "close", o, d, FALSE, S2.holder[o], why) EXCEPT !.closeTimer[o] = id]

\* PopupControl.close(delayMs); why names the caller.
ctlClose(S, o, delayMs, why) ==
  LET d  == defaultTo(delayMs, 0)
      S1 == IF S.openTimer[o] # 0
            THEN [clearTimeout(S, S.openTimer[o]) EXCEPT !.openTimer[o] = 0]
            ELSE S
      S2 == MarkLate(S1, o, "open")
      id == FreshId(S2.timers)
  IN [setTimeout(S2, "close", o, d, FALSE, S2.holder[o], why) EXCEPT !.closeTimer[o] = id]

\* PopupControl.toggle()
ctlToggle(S, o) ==
  IF S.holder[o] = 0 THEN ctlOpen(S, o, Undef, FALSE, TRUE, "toggle")
  ELSE ctlClose(S, o, Undef, "toggle")

\* An isOpen() that also counts a pending opening.
isOpenOrOpening(S, o) == S.holder[o] # 0 \/ S.openTimer[o] # 0

\* PopupControl.isOpen()
isOpen(S, o) == S.holder[o] # 0

\* -------------------------------------------------- Menu State Machine
\* elem.offsetHeight: 0 for an element that is hidden or not in the document.
offsetHeight(S, s, i) == IF layout[i] # "hidden" /\ Attached(S, s) THEN 1 ELSE 0

\* A test that takes a disabled child for selectable.
isSelectableThoughDisabled(S, s, i) == hasTabIndex(layout[i]) /\ offsetHeight(S, s, i) > 0

\* isSelectable(elem), for child i of the menu of session s
isSelectable(S, s, i) ==
  hasTabIndex(layout[i]) /\ ~isDisabled(layout[i]) /\ offsetHeight(S, s, i) > 0

\* The getNext functions of nextIndex and prevIndex; 0 is null.
\* (elem && elem.nextElementSibling) || this._menuContent.firstElementChild
nextElement(i) ==
  IF i # 0 /\ i < Len(layout) THEN i + 1 ELSE IF Len(layout) > 0 THEN 1 ELSE 0
\* (elem && elem.previousElementSibling) || this._menuContent.lastElementChild
prevElement(i) == IF i > 1 THEN i - 1 ELSE Len(layout)

getNext(dir, i) == IF dir = "next" THEN nextElement(i) ELSE prevElement(i)

\* The while loop of getNextSelectable. The loop's only state is next, one of the
\* Len(layout) children: when it has gone round Len(layout) times without leaving, it
\* is in a state it has been in before and never leaves (loops |-> TRUE).
RECURSIVE scanSelectable(_, _, _, _, _, _)
scanSelectable(S, s, startElem, next, dir, fuel) ==
  IF next # 0 /\ next # startElem /\ ~isSelectable(S, s, next)
  THEN IF fuel = 0 THEN [loops |-> TRUE, elem |-> 0]
       ELSE scanSelectable(S, s, startElem, getNext(dir, next), dir, fuel - 1)
  ELSE [loops |-> FALSE, elem |-> next]

getNextSelectable(S, s, startElem, dir) ==
  scanSelectable(S, s, startElem, getNext(dir, startElem), dir, Len(layout))

\* A setSelected that leaves the class on the item that was selected.
setSelectedKeepsClass(S, s, elem) ==
  LET prev == S.sess[s].sel
      S1 == IF prev # 0 /\ layout[prev] = "sub" THEN ctlClose(S, s, Undef, "deselect") ELSE S
      S2 == [S1 EXCEPT !.sess[s].sel = elem,
                       !.sess[s].selClass = @ \cup ({elem} \ {0})]
  IN IF elem = prev THEN S ELSE focusElem(S2, Loc(s, elem))

\* BaseMenu.setSelected(elem), elem = 0 for null. The menuItemSelected callback of a
\* submenu item is (yesNo) => yesNo || ctl.close().
setSelected(S, s, elem) ==
  LET prev == S.sess[s].sel
      S1 == IF prev # 0 /\ layout[prev] = "sub" THEN ctlClose(S, s, Undef, "deselect") ELSE S
      S2 == [S1 EXCEPT !.sess[s].sel = elem,
                       !.sess[s].selClass = (@ \ {prev}) \cup ({elem} \ {0})]
  IN IF elem = prev THEN S ELSE focusElem(S2, Loc(s, elem))

\* BaseMenu.nextIndex() and prevIndex()
moveIndex(S, s, dir) ==
  LET r == getNextSelectable(S, s, S.sess[s].sel, dir)
  IN IF r.loops THEN [S EXCEPT !.hung = TRUE]
     ELSE IF r.elem # 0 THEN setSelected(S, s, r.elem) ELSE S

nextIndex(S, s) == moveIndex(S, s, "next")
prevIndex(S, s) == moveIndex(S, s, "prev")

\* BaseMenu._findTargetItem(ev): the child of the <ul> that holds the target, if it
\* is selectable.
findTargetItem(S, s, i) == IF i # 0 /\ isSelectable(S, s, i) THEN i ELSE 0

\* A mouseover handler that looks for a selectable child only: a target in a child that
\* is not selectable changes nothing.
onMouseOverSelectableOnly(S, s, i) ==
  IF i # 0 /\ isSelectable(S, s, i) THEN setSelected(S, s, i) ELSE S

\* BaseMenu._onMouseOver(ev); isMenuContainer(ev.target) is i = 0.
onMouseOver(S, s, i) == IF i # 0 THEN setSelected(S, s, findTargetItem(S, s, i)) ELSE S

\* A mouseleave handler that deselects whether or not a submenu is open.
onMouseLeaveAlways(S, s) ==
  IF S.sess[s].sel # 0 THEN setSelected(S, s, 0) ELSE S

\* BaseMenu._onMouseLeave(ev)
onMouseLeave(S, s) ==
  LET elem == S.sess[s].sel
      marked == layout[elem] = "sub" /\ S.openClass[s]    \* 'weasel-popup-open'
  IN IF elem # 0 /\ ~marked THEN setSelected(S, s, 0) ELSE S

\* mouseOverOnMove: the first mousemove installs the mouseover listener and calls
\* the callback itself.
onFirstMouseMove(S, s, i) == onMouseOver([S EXCEPT !.sess[s].armed = TRUE], s, i)

\* A mount callback that does not look at selectOnOpen.
menuMountedIgnoresOption(S, s, sel) == focusElem(S, Loc(s, 0))

\* The callback Menu's constructor defers with setTimeout(..., 0).
menuMounted(S, s, sel) == IF sel THEN nextIndex(S, s) ELSE focusElem(S, Loc(s, 0))

\* ------------------------------------------------------------- clicks
\* A test that takes a target outside one of the two for outside.
isOutsideEither(S, s, target) ==
  ~contentContains(S, s, target) \/ ~triggerContains(S, s, target)

\* The document click listener of session s (capturing): a target outside both the
\* content and the trigger disposes the session.
isOutside(S, s, target) == ~contentContains(S, s, target) /\ ~triggerContains(S, s, target)

\* A dispatch that calls every listener installed when it began.
listenerStaysInstalled(S, S0, s) == TRUE

\* A listener that was removed while the event is dispatched is not called.
listenerInstalled(S, S0, s) == S.sess[s].live

onDocumentClick(S, s, target) ==
  IF isOutside(S, s, target) THEN DisposeSession(S, s, "outside") ELSE S

\* The listeners run in the order they were installed, the order of the sessions.
RECURSIVE dispatchCapture(_, _, _, _)
dispatchCapture(S, S0, s, target) ==
  IF s > Len(S0.sess) THEN S
  ELSE dispatchCapture(IF S0.sess[s].live /\ listenerInstalled(S, S0, s)
                       THEN onDocumentClick(S, s, target) ELSE S,
                       S0, s + 1, target)

documentClick(S, target) == dispatchCapture(S, S, 1, target)

\* isInSelectableItem(ev.target)
isInSelectableItem(S, target) ==
  target.idx # 0 /\ isSelectable(S, target.sid, target.idx)

\* A click that stops at the wrapper of the menu it is in.
bubbleClickStopsAtFirst(S, s, target) ==
  IF s = 0 \/ ~isInSelectableItem(S, target) THEN S
  ELSE ctlClose(S, S.sess[s].ctl, 0, "click")

\* The click handler on the wrapper of each menu, from the menu of the target up to
\* the root: isInSelectableItem(target) ? ctl.close(0) : ev.stopPropagation()
RECURSIVE bubbleClick(_, _, _)
bubbleClick(S, s, target) ==
  IF s = 0 \/ ~isInSelectableItem(S, target) THEN S
  ELSE bubbleClick(ctlClose(S, S.sess[s].ctl, 0, "click"), S.sess[s].ctl, target)

\* A click handler that does not look at the disabled marker.
itemClickAlways(S, i) == IF isMenuItem(layout[i]) THEN [S EXCEPT !.actions = @ + 1] ELSE S

\* menuItem's click handler: elem.classList.contains('disabled') || action()
itemClick(S, i) ==
  IF isMenuItem(layout[i]) /\ ~isDisabled(layout[i]) THEN [S EXCEPT !.actions = @ + 1] ELSE S

\* A click that a submenu item lets through to the wrapper of its menu.
menuClickPropagates(S, target) ==
  LET S1 == documentClick(S, target)
      i  == target.idx
  IN IF i = 0 THEN bubbleClick(S1, target.sid, target)
     ELSE bubbleClick(itemClick(S1, i), target.sid, target)

\* A click inside the menu of session target.sid. The click handler of a submenu item
\* stops the propagation.
menuClick(S, target) ==
  LET S1 == documentClick(S, target)
      i  == target.idx
  IN IF i = 0 THEN bubbleClick(S1, target.sid, target)
     ELSE IF layout[i] = "sub" THEN S1
     ELSE bubbleClick(itemClick(S1, i), target.sid, target)

\* A click on the root trigger: dom.onElem(triggerElem, 'click', () => this.toggle())
triggerClick(S) == ctlToggle(documentClick(S, RootTrigger), 0)

\* --------------------------------------------------------------- keys
\* keydown with the focus on `at`, inside the menu of session at.sid. The event goes
\* from the focused element to its <ul>, to the wrapper of that menu and on through
\* the wrappers of the menus above it; a handler without '$' stops it.
\* A key handler that never invokes the action.
itemActionNever(S, at) == S

\* menuItem's key handler: onKeyDown({Enter$: action})
itemAction(S, at) ==
  IF at.idx # 0 /\ isMenuItem(layout[at.idx]) THEN [S EXCEPT !.actions = @ + 1] ELSE S

onKeyDown(S, at, key) ==
  LET s == at.sid
      onSub == at.idx # 0 /\ layout[at.idx] = "sub"
  IN CASE key = "ArrowDown"  -> nextIndex(S, s)
       [] key = "ArrowUp"    -> prevIndex(S, s)
       [] key = "ArrowLeft"  -> IF S.sess[s].level > 0
                                THEN ctlClose(S, S.sess[s].ctl, 0, "ArrowLeft") ELSE S
       [] key = "ArrowRight" -> IF onSub THEN ctlOpen(S, s, Undef, TRUE, FALSE, key) ELSE S
       [] key = "Enter"      -> IF onSub THEN ctlOpen(S, s, Undef, TRUE, FALSE, key)
                                ELSE ctlClose(itemAction(S, at), 0, 0, key)
       [] key = "Escape"     -> ctlClose(S, 0, 0, key)
       [] OTHER              -> S

\* ------------------------------------------------------------ actions
OpenTimers(T) == {p \in 1..Len(T) : T[p].kind = "open"}

\* The bounds of the model: a callback that would exceed one is not taken. Every
\* pending open timer has a session left to create.
WithinBounds(S) ==
  /\ Len(S.timers) <= MaxTimers
  /\ Len(S.sess) + Cardinality(OpenTimers(S.timers)) <= MaxSessions
  /\ S.actions <= MaxActions

\* The callback runs and leaves the state S.
Effect(S) ==
  /\ ~hung
  /\ WithinBounds(S)
  /\ sess' = S.sess
  /\ holder' = S.holder
  /\ openTimer' = S.openTimer
  /\ closeTimer' = S.closeTimer
  /\ ctlDisposed' = S.ctlDisposed
  /\ timers' = S.timers
  /\ openClass' = S.openClass
  /\ focus' = S.focus
  /\ actions' = S.actions
  /\ hung' = S.hung

Commit(S) == Effect(S) /\ UNCHANGED <<opener, layout, keyState, toggles, thrown, attach>>

\* The menus a user can point at: those in the document.
Visible == {s \in 1..Len(sess) : sess[s].menu /\ Attached(State, s)}

\* The places of a visible menu the pointer can be on: the <ul> and its children
\* that are rendered.
Targets(s) == {0} \cup {i \in 1..Len(layout) : layout[i] # "hidden"}

\* --- calls of the controller's API by its consumer (root controller)
CallOpen ==
  \E d \in Delays \cup {Undef}, reopen \in BOOLEAN :
    Commit(ctlOpen(State, 0, d, FALSE, reopen, "open"))

CallClose ==
  \E d \in Delays \cup {Undef} : Commit(ctlClose(State, 0, d, "close"))

CallToggle == Commit(ctlToggle(State, 0))

\* --- timers
\* The callback of the pending timer at position p runs.
timerCallback(S, t) ==
  CASE t.kind = "open"  -> popupOpen(S, t.who, t.sel)
    [] t.kind = "close" -> popupClose(S, t.who, t.why)
    [] t.kind = "mount" -> menuMounted(S, t.who, t.sel)

FireAt(p) ==
  /\ CanFire(timers, p)
  /\ \E S \in {timerCallback(clearTimeout(State, timers[p].id), timers[p])} : Commit(S)

FireTimer == \E p \in 1..Len(timers) : FireAt(p)

\* --- pointer
ClickOutside == Commit(documentClick(State, Body))

ClickTrigger == Commit(triggerClick(State))

ClickMenuAt(s, i) == Commit(menuClick(State, Loc(s, i)))

ClickMenu == \E s \in Visible : \E i \in Targets(s) : ClickMenuAt(s, i)

\* mouseenter on the submenu item: ctl.open({showDelay: 200})
MouseEnterSubmenuItem ==
  \E s \in Visible :
    /\ hasSubmenu /\ sess[s].level < MaxDepth
    /\ Commit(ctlOpen(State, s, HoverDelay, FALSE, FALSE, "mouseenter"))

MouseMove ==
  \E s \in Visible : \E i \in Targets(s) :
    /\ ~sess[s].armed
    /\ Commit(onFirstMouseMove(State, s, i))

MouseOver ==
  \E s \in Visible : \E i \in Targets(s) :
    /\ sess[s].armed
    /\ Commit(onMouseOver(State, s, i))

MouseLeave ==
  \E s \in Visible : Commit(onMouseLeave(State, s))

\* --- keys, with the focus inside a menu
Keys == {"ArrowDown", "ArrowUp", "ArrowLeft", "ArrowRight", "Enter", "Escape"}
NavKeys == {"ArrowDown", "ArrowUp"}

\* A key that opens a submenu is pressed only down to the deepest level modelled.
OpensSubmenu(at, key) ==
  key \in {"ArrowRight", "Enter"} /\ at.idx # 0 /\ layout[at.idx] = "sub"

KeyDownOn(key) ==
  /\ focus.sid # 0
  /\ OpensSubmenu(focus, key) => sess[focus.sid].level < MaxDepth
  /\ Commit(onKeyDown(State, focus, key))

KeyDown == \E key \in Keys : KeyDownOn(key)

NavKeyDown == \E key \in NavKeys : KeyDownOn(key)

\* ---------------------------------------------------- specifications
InitPopup ==
  /\ sess = << >>
  /\ holder = [o \in Ctls |-> 0]
  /\ openTimer = [o \in Ctls |-> 0]
  /\ closeTimer = [o \in Ctls |-> 0]
  /\ ctlDisposed = [o \in Ctls |-> FALSE]
  /\ timers = << >>
  /\ openClass = [o \in Ctls |-> FALSE]
  /\ focus = Body
  /\ actions = 0
  /\ hung = FALSE

\* new SelectKeyState(items): _term = "", _cycleIndex = 0, _timeoutId = null. `elapsed`
\* is the time since the timeout was set, `result` the index of the option add()
\* returned last (0: null); `presses` and `typed` record the keys accepted since the
\* term was last empty: how many, and which one if they were all the same key and
\* each came less than TermTimeout after the one before.
NewKeyState(items) ==
  [items |-> items, term |-> << >>, cycleIndex |-> 0, timeoutId |-> FALSE, elapsed |-> 0,
   result |-> 0, presses |-> 0, typed |-> << >>]

InitOther == keyState = NewKeyState(<< >>) /\ toggles = 0 /\ thrown = ""

\* The popups of the other specifications are attached where their trigger is.
InitCommon == InitPopup /\ InitOther /\ attach = "none"

\* One PopupControl with a plain element as content (setPopupToAttach), driven through
\* open, close and toggle.
Init == InitCommon /\ opener = "attach" /\ layout = << >>
Next == CallOpen \/ CallClose \/ CallToggle \/ FireTimer \/ ClickOutside
Spec == Init /\ [][Next]_vars

\* A menu on a click trigger, with a disabled item, a divider and a submenu item whose
\* submenu has the same children (as makeMenu and makePasteSubmenu of the fixture).
\* The callback of the pending open timer at position p runs and openFunc throws: the
\* exception leaves the timer's callback, the stack of which holds no caller of open().
OpenThrowsAt(p) ==
  /\ CanFire(timers, p)
  /\ timers[p].kind = "open"
  /\ Effect(popupOpenThrows(clearTimeout(State, timers[p].id), timers[p].who))
  /\ thrown' = "timer"
  /\ UNCHANGED <<opener, layout, keyState, toggles, attach>>

OpenThrows == \E p \in 1..Len(timers) : OpenThrowsAt(p)

\* The bare controller with a content producer that may throw.
ThrowNext == Next \/ OpenThrows
ThrowSpec == Init /\ [][ThrowNext]_vars

\* The bare controller with every kind of options.attach.
AttachInit ==
  /\ InitPopup /\ InitOther /\ opener = "attach" /\ layout = << >>
  /\ attach \in AttachOptions
AttachSpec == AttachInit /\ [][Next]_vars

\* The same controller, brought by any calls to a state where it is closed and no
\* timer is pending, and from there driven by toggle() alone, the calls counted.
Toggle ==
  /\ toggles < MaxToggles
  /\ toggles = 0 => holder[0] = 0 /\ timers = << >>
  /\ Effect(ctlToggle(State, 0))
  /\ toggles' = toggles + 1
  /\ UNCHANGED <<opener, layout, keyState, thrown, attach>>

ToggleNext ==
  \/ toggles = 0 /\ Next
  \/ Toggle
  \/ toggles > 0 /\ FireTimer
ToggleSpec == Init /\ [][ToggleNext]_vars

MenuLayout == <<"item", "disabled", "divider", "sub">>
MenuInit == InitCommon /\ opener = "menu" /\ layout = MenuLayout
MenuNext ==
  \/ ClickTrigger \/ ClickOutside \/ ClickMenu \/ FireTimer
  \/ MouseEnterSubmenuItem \/ MouseMove \/ MouseOver \/ MouseLeave \/ KeyDown
MenuSpec == MenuInit /\ [][MenuNext]_vars

\* The timer at position p, if there is one, fires.
TimerRuns(p) == \E q \in 1..Len(timers) : q = p /\ FireAt(q)

\* The fixture menu under the pointer and the arrow keys.
HoverNext ==
  \/ ClickTrigger \/ FireTimer
  \/ MouseEnterSubmenuItem \/ MouseMove \/ MouseOver \/ MouseLeave \/ NavKeyDown
HoverSpec == MenuInit /\ [][HoverNext]_vars
\* The event loop runs the callback of every timer that is due: a pending timer that
\* is not cleared fires.
HoverFairSpec == HoverSpec /\ \A p \in 1..MaxTimers : WF_vars(TimerRuns(p))

\* The fixture menu under the pointer and its clicks.
ClickNext ==
  \/ ClickTrigger \/ ClickMenu \/ FireTimer
  \/ MouseEnterSubmenuItem \/ MouseMove \/ MouseOver
ClickSpec == MenuInit /\ [][ClickNext]_vars
ClickFairSpec == ClickSpec /\ \A p \in 1..MaxTimers : WF_vars(TimerRuns(p))

\* A menu without submenus, whatever its children are, opened once by a click on its
\* trigger and then navigated with the keys and the pointer.
OpenMenu == Len(sess) = 0 /\ openTimer[0] = 0 /\ ClickTrigger

NavKinds == Kinds \ {"sub"}
RECURSIVE SeqsUpTo(_, _)
SeqsUpTo(K, n) ==
  IF n = 0 THEN {<< >>}
  ELSE LET shorter == SeqsUpTo(K, n - 1)
       IN shorter \cup {Append(q, k) : q \in {r \in shorter : Len(r) = n - 1}, k \in K}
NavInit == InitCommon /\ opener = "menu" /\ layout \in SeqsUpTo(NavKinds, MaxLen)
NavNext ==
  \/ OpenMenu \/ FireTimer \/ MouseMove \/ MouseOver \/ MouseLeave \/ NavKeyDown
NavSpec == NavInit /\ [][NavNext]_vars

\* ------------------------------------------------------------ lib/select.ts
\* A string is the sequence of its UTF-16 code units, each written as a token.
\* String.prototype.toLowerCase, unit by unit: U+0130 is the one character whose
\* lower case is two units long.
lowerUnit(u) ==
  CASE u = "A" -> <<"a">>
    [] u = "E" -> <<"e">>
    [] u = "U+0130" -> <<"i", "U+0307">>
    [] OTHER -> <<u>>

RECURSIVE toLowerCase(_)
toLowerCase(str) ==
  IF str = << >> THEN << >> ELSE lowerUnit(Head(str)) \o toLowerCase(Tail(str))

\* String.prototype.startsWith
startsWith(str, prefix) ==
  Len(prefix) <= Len(str) /\ SubSeq(str, 1, Len(prefix)) = prefix

\* A toLowerCase that maps every unit to itself.
toLowerCaseIdentity(str) == str

\* A filter that keeps the disabled options.
matchesOfAnyOption(items, term) ==
  LET Test(i) == startsWith(toLowerCase(items[i].label), term)
  IN SelectSeq([i \in 1..Len(items) |-> i], Test)

\* items.filter(...) in add(): the indices of the options that are not disabled and
\* whose lower-cased label starts with the term, in option order.
matchesOf(items, term) ==
  LET Test(i) == ~items[i].disabled /\ startsWith(toLowerCase(items[i].label), term)
  IN SelectSeq([i \in 1..Len(items) |-> i], Test)

\* SelectKeyState.add(char)
add(K, char) ==
  IF Len(char) > 1 THEN [K EXCEPT !.result = 0]
  ELSE
    LET c == toLowerCase(char)
        cycling == Len(K.term) = 1 /\ c = <<K.term[1]>>
        term == IF cycling THEN K.term ELSE K.term \o c
        cycleIndex == IF cycling THEN K.cycleIndex + 1 ELSE 0
        matches == matchesOf(K.items, term)
        K1 == [K EXCEPT !.timeoutId = TRUE, !.elapsed = 0, !.term = term]
    IN IF Len(matches) > 0
         THEN [K1 EXCEPT !.cycleIndex = cycleIndex % Len(matches),
                         !.result = matches[(cycleIndex % Len(matches)) + 1]]
         ELSE [K1 EXCEPT !.cycleIndex = cycleIndex, !.result = 0]

\* A timeout callback that leaves the term as it is.
termTimeoutKeepsTerm(K) == [K EXCEPT !.timeoutId = FALSE, !.presses = 0, !.typed = << >>]

\* The callback of add()'s timeout: this._term = ""
termTimeout(K) == [K EXCEPT !.term = << >>, !.timeoutId = FALSE, !.presses = 0, !.typed = << >>]

\* The labels the options are taken from, and the keys that are typed (ev.key): a
\* letter, the same letter with shift, other letters, U+0130, and a named key.
Catalogue ==
  << <<"a", "p", "p">>, <<"A", "p", "r">>, <<"b", "a">>, <<"a", "v", "o">>,
     <<"U+0130", "s">>, <<"U+0130", "z">> >>
TypedKeys ==
  {<<"a">>, <<"A">>, <<"p">>, <<"r">>, <<"v">>, <<"U+0130">>, <<"E", "n", "t", "e", "r">>}

\* The options at the positions P of the catalogue, in its order, those of D disabled.
RECURSIVE optionsOf(_, _, _)
optionsOf(P, D, from) ==
  IF from > Len(Catalogue) THEN << >>
  ELSE (IF from \in P THEN << [label |-> Catalogue[from], disabled |-> from \in D] >> ELSE << >>)
         \o optionsOf(P, D, from + 1)

ItemArrays ==
  {optionsOf(P, D, 1) : P \in {Q \in SUBSET (1..Len(Catalogue)) : Cardinality(Q) <= MaxItems},
                        D \in SUBSET (1..Len(Catalogue))}

popupVars == <<opener, layout, sess, holder, openTimer, closeTimer, ctlDisposed, timers,
               openClass, focus, actions, hung, toggles, thrown, attach>>

\* keydown on the select element: keyState.add(ev.key)
TypeKey ==
  \E char \in TypedKeys :
    LET K == add(keyState, char)
        accepted == Len(char) <= 1
        same == \/ keyState.presses = 0
                \/ keyState.typed = char /\ keyState.elapsed < TermTimeout
    IN /\ keyState.presses < MaxPresses
       /\ keyState' = IF accepted
                        THEN [K EXCEPT !.presses = @ + 1,
                                       !.typed = IF same THEN char ELSE <<"mixed">>]
                        ELSE K
       /\ UNCHANGED popupVars

\* Time passes, up to the moment the timeout is due.
Tick ==
  /\ keyState.timeoutId /\ keyState.elapsed < TermTimeout
  /\ keyState' = [keyState EXCEPT !.elapsed = @ + TermTimeout \div 2]
  /\ UNCHANGED popupVars

\* The timeout fires, no earlier than TermTimeout after it was set.
TermTimeoutFires ==
  /\ keyState.timeoutId /\ keyState.elapsed >= TermTimeout
  /\ keyState' = termTimeout(keyState)
  /\ UNCHANGED popupVars

\* A select element with some options, and keys typed on it.
TypeInit ==
  /\ InitPopup /\ opener = "attach" /\ layout = << >> /\ toggles = 0 /\ thrown = ""
  /\ attach = "none"
  /\ \E items \in ItemArrays : keyState = NewKeyState(items)
TypeNext == TypeKey \/ Tick \/ TermTimeoutFires
TypeSpec == TypeInit /\ [][TypeNext]_vars

\* ------------------------------------------------------------ properties
Sessions == 1..Len(sess)
Pending  == 1..Len(timers)

\* The sessions of controller o that are created and not yet disposed.
LiveOf(o) == {s \in Sessions : sess[s].ctl = o /\ sess[s].live}

C2_CloseCancelsPendingOpen ==
  [][\A p \in Pending :
       (timers[p].kind = "open" /\ timers[p].from = 0 /\ timers[p].late /\ FireAt(p))
         => Len(sess') = Len(sess)]_vars

\* C3: a close() made on a controller with a live session, followed by open() while
\* its timer is pending, never disposes that session: after the callback of such a
\* timer the session is still live.
C3_OpenCancelsPendingClose ==
  [][\A p \in Pending :
       (/\ timers[p].kind = "close" /\ timers[p].late
        /\ timers[p].from # 0 /\ sess[timers[p].from].live
        /\ FireAt(p))
         => sess'[timers[p].from].live]_vars

\* C4: no controller has an open timer and a close timer pending at once, counting
\* every timer that was scheduled and has neither fired nor been cancelled.
C4_TimersExclusive ==
  \A o \in Ctls :
    ~(\E p, q \in Pending : /\ timers[p].who = o /\ timers[p].kind = "open"
                            /\ timers[q].who = o /\ timers[q].kind = "close")

\* The sessions whose content is inside the content of session s.
Below(s) == {m \in Sessions : m # s /\ s \in Chain(State, m)}

\* C5: a document click outside every trigger and content disposes every live session,
\* each exactly once, also with submenus open (a step that leaves a live session live,
\* or disposed more than once, is not such a click); a click inside the content or on
\* the trigger of a session never disposes it (a step that disposes a session is not
\* such a click); no session is ever disposed twice.
C5_OutsideClickDisposesOnce ==
  [][/\ (\E m \in Sessions :
           sess[m].live /\ ~(~sess'[m].live /\ sess'[m].disposals = 1))
          => ~ClickOutside
     /\ \A m \in Sessions :
          (sess[m].live /\ ~sess'[m].live) =>
            /\ \A s \in Visible : \A i \in Targets(s) :
                 (\/ contentContains(State, m, Loc(s, i))
                  \/ triggerContains(State, m, Loc(s, i)))
                   => ~ClickMenuAt(s, i)
            /\ sess[m].ctl = 0 => ~ClickTrigger
     /\ \A m \in 1..Len(sess') : sess'[m].disposals <= 1]_vars

\* An outside click closed a root menu together with the submenu that was open.
C5_ChainClosedByOutsideClick ==
  \E r, c \in Sessions :
    /\ sess[r].ctl = 0 /\ sess[r].by = "outside" /\ sess[r].disposals = 1
    /\ sess[c].ctl = r /\ sess[c].by = "owner" /\ sess[c].disposals = 1

\* The pending close timers of controller o.
CloseTimers(T, o) == {q \in 1..Len(T) : T[q].kind = "close" /\ T[q].who = o}

\* What a click on an enabled menu item of the menu of session s leaves: one more
\* action invoked, one more closing of its overlay requested.
ActedAndRequestedClose(s) ==
  /\ actions' = actions + 1
  /\ Cardinality(CloseTimers(timers', sess[s].ctl))
       = Cardinality(CloseTimers(timers, sess[s].ctl)) + 1
  /\ closeTimer'[sess[s].ctl] # 0

\* What a click on a disabled menu item of the menu of session s leaves: no action
\* invoked, no closing requested of its overlay or of an overlay above it.
NeitherActedNorRequestedClose(s) ==
  /\ actions' = actions
  /\ \A m \in Chain(State, s) :
       Cardinality(CloseTimers(timers', sess[m].ctl))
         = Cardinality(CloseTimers(timers, sess[m].ctl))

\* C6: a click on a disabled menu item invokes no action and requests no closing of
\* its overlay or of an overlay above it; a click on an enabled menu item invokes one
\* action and requests the closing of its overlay once, and the callback of that
\* request leaves the overlay's session disposed once.
C6_ItemClick ==
  [][/\ \A s \in Visible : \A i \in Targets(s) \ {0} :
          /\ (layout[i] = "disabled" /\ ~NeitherActedNorRequestedClose(s))
               => ~ClickMenuAt(s, i)
          /\ (layout[i] = "item" /\ ~ActedAndRequestedClose(s))
               => ~ClickMenuAt(s, i)
     /\ \A q \in Pending :
          (timers[q].kind = "close" /\ timers[q].why = "click" /\ FireAt(q)) =>
            LET o == timers[q].who
            IN /\ holder'[o] = 0
               /\ holder[o] # 0 =>
                    ~sess'[holder[o]].live /\ sess'[holder[o]].disposals = 1]_vars

\* An enabled item was clicked: its action ran once and the closing is requested.
C6_EnabledItemClicked ==
  /\ actions = 1
  /\ \E q \in Pending : timers[q].kind = "close" /\ timers[q].why = "click"
                        /\ timers[q].who = 0 /\ closeTimer[0] = timers[q].id

\* The children the navigation may select: with a tab index, without the disabled
\* marker, rendered.
Selectables == {j \in 1..Len(layout) : layout[j] \in {"item", "sub"}}

\* How many steps forward (dir = "next") or backward lead from child a to child j,
\* going round from the last child to the first.
Steps(a, j, dir) ==
  IF dir = "next" THEN (j - a + Len(layout)) % Len(layout)
  ELSE (a - j + Len(layout)) % Len(layout)

\* The nearest selectable sibling of child a in direction dir; a itself when there is
\* no other.
Nearest(a, dir) ==
  LET others == Selectables \ {a}
  IN IF others = {} THEN a
     ELSE CHOOSE j \in others : \A k \in others : Steps(a, j, dir) <= Steps(a, k, dir)

C8_NavigationTerminates == ~hung

C10_EscapeClosesChain ==
  [][/\ KeyDownOn("Escape") =>
          /\ actions' = actions
          /\ \E q \in 1..Len(timers') :
               /\ timers'[q].kind = "close" /\ timers'[q].who = 0 /\ timers'[q].delay = 0
               /\ timers'[q].why = "Escape" /\ closeTimer'[0] = timers'[q].id
     /\ \A q \in Pending :
          (timers[q].kind = "close" /\ timers[q].why = "Escape") =>
            /\ timers[q].id \notin TimerIds(timers') =>
                 FireAt(q) \/ \A m \in Sessions : ~Attached(State, m)
            /\ FireAt(q) =>
                 /\ actions' = actions
                 /\ \A m \in Sessions : Attached(State, m) => ~sess'[m].live]_vars

\* Escape closed a root menu together with the submenu that was open, and no action
\* was invoked.
C10_ChainClosedByEscape ==
  /\ actions = 0
  /\ \E r, c \in Sessions :
       /\ sess[r].ctl = 0 /\ sess[r].by = "Escape"
       /\ sess[c].ctl = r /\ sess[c].by = "owner"

\* The timers of T that were scheduled by this step.
NewTimers == {q \in 1..Len(timers') : \A r \in Pending : timers[r].id # timers'[q].id}

\* This step left a request to close the root overlay at once, made by `why`, in the
\* root controller's _closeTimer.
RequestedRootClose(why) ==
  \E q \in NewTimers :
    /\ timers'[q].kind = "close" /\ timers'[q].who = 0 /\ timers'[q].delay = 0
    /\ timers'[q].why = why /\ closeTimer'[0] = timers'[q].id

\* The focus is on an enabled menu item that is its menu's selection (setSelected
\* focuses what it selects, whether the keys or the pointer selected it).
OnSelectedItem ==
  /\ focus.sid # 0 /\ focus.idx # 0
  /\ layout[focus.idx] = "item" /\ sess[focus.sid].sel = focus.idx

HoverTimers(s) ==
  {q \in Pending : timers[q].kind = "open" /\ timers[q].who = s /\ timers[q].why = "mouseenter"}

\* The pointer, which was on the submenu item of menu s, arrives on place i of the
\* same menu: the menu's mousemove or mouseover listener runs.
PointerArrives(s, i) ==
  IF sess[s].armed THEN Commit(onMouseOver(State, s, i)) ELSE Commit(onFirstMouseMove(State, s, i))

\* C12: while the opening that a mouseenter scheduled is pending, the pointer moving
\* from the submenu item to another place of the same menu, the <ul> itself included,
\* cancels that opening, so that no submenu session is created.
C12_LeavingCancelsHoverOpen ==
  [][\A s \in Visible : \A q \in HoverTimers(s) : \A i \in Targets(s) :
       ((i = 0 \/ layout[i] # "sub") /\ timers[q].id \in TimerIds(timers')) => ~PointerArrives(s, i)]_vars

\* The focus is on the submenu item of a menu, and that item is the menu's selection.
OnSelectedSubmenuItem ==
  /\ focus.sid # 0 /\ focus.idx # 0
  /\ layout[focus.idx] = "sub" /\ sess[focus.sid].sel = focus.idx

\* After this step the submenu of menu s is about to open at once with a selection
\* (a 0 ms selecting open is in its controller's _openTimer), or it is open with an
\* item selected and focused.
SubmenuOpensSelecting(s) ==
  \/ \E q \in 1..Len(timers') :
       /\ timers'[q].kind = "open" /\ timers'[q].who = s
       /\ timers'[q].delay = 0 /\ timers'[q].sel
       /\ openTimer'[s] = timers'[q].id
  \/ \E m \in 1..Len(sess') :
       /\ sess'[m].live /\ sess'[m].ctl = s
       /\ sess'[m].sel # 0 /\ focus' = Loc(m, sess'[m].sel)

\* C13: ArrowRight or Enter on the selected submenu item leaves the submenu opening
\* at once with its first selectable item selected, or open with an item selected
\* and focused, whatever the state of the item's controller at the key press.
C13_KeyOpensSubmenuSelecting ==
  [][\A key \in {"ArrowRight", "Enter"} :
       (OnSelectedSubmenuItem /\ ~SubmenuOpensSelecting(focus.sid)) => ~KeyDownOn(key)]_vars

\* Two characters that are the same up to case.
SameLetter(x, y) == x = y \/ {x, y} \in {{"a", "A"}, {"e", "E"}}

\* The enabled options whose label starts with the character ch, case-insensitively,
\* in option order.
StartingWith(items, ch) ==
  LET Test(i) == ~items[i].disabled /\ SameLetter(items[i].label[1], ch)
  IN SelectSeq([i \in 1..Len(items) |-> i], Test)

\* This step is an accepted key press.
Accepted == keyState'.presses = keyState.presses + 1

\* C14: from an empty term, the k-th press in a row of one character, each less than
\* 1000 ms after the one before, returns the ((k-1) mod n)-th of the n >= 1 enabled
\* options whose label starts with that character, case-insensitively, in option order.
C14_SameKeyCycles ==
  [][(Accepted /\ keyState'.typed # <<"mixed">>) =>
       LET M == StartingWith(keyState.items, keyState'.typed[1])
           k == keyState'.presses
       IN Len(M) >= 1 => keyState'.result = M[((k - 1) % Len(M)) + 1]]_vars

\* C15: an accepted key sets the countdown anew; the term is emptied only by the
\* countdown's callback, TermTimeout or more after the last accepted key; and the
\* first key accepted after that starts a new term, which is that key alone, and
\* returns the first enabled option that starts with it (none if there is none).
C15_TimeoutStartsNewTerm ==
  [][/\ Accepted => keyState'.timeoutId /\ keyState'.elapsed = 0
     /\ (keyState.term # << >> /\ keyState'.term = << >>) =>
          keyState.timeoutId /\ keyState.elapsed >= TermTimeout /\ ~keyState'.timeoutId
     /\ (keyState.timeoutId /\ ~keyState'.timeoutId) => keyState'.term = << >>
     /\ (Accepted /\ ~keyState.timeoutId) =>
          LET M == StartingWith(keyState.items, keyState'.typed[1])
          IN /\ keyState'.term = toLowerCase(keyState'.typed)
             /\ keyState'.result = IF Len(M) >= 1 THEN M[1] ELSE 0]_vars

\* The countdown expired in the middle of a cycle: the term is empty and no timeout is
\* pending, while the cycle index and the last result are those of the second or a
\* later press of a key.
C15_ExpiredMidCycle ==
  /\ keyState.term = << >> /\ ~keyState.timeoutId
  /\ keyState.cycleIndex > 0 /\ keyState.result # 0

\* C16: counting the toggle() calls made since the controller was closed with no timer
\* pending, and no other call made since: whenever no timer is pending, the controller
\* has a live session exactly when the count is odd.
C16_ToggleParity ==
  (toggles > 0 /\ timers = << >>) => (LiveOf(0) # {} <=> toggles % 2 = 1)

\* C17: between two callbacks, isOpen() of a controller is true exactly when one of the
\* sessions created for that controller is live, whatever timers are pending and
\* whichever way its sessions ended; and the holder holds that live session.
C17_IsOpenIffLiveSession ==
  \A o \in Ctls :
    /\ isOpen(State, o) <=> LiveOf(o) # {}
    /\ \A s \in LiveOf(o) : holder[o] = s

\* The root menu is open with its closing pending, and the opening of its submenu is
\* pending with no submenu session yet.
C17_OpenWhileClosingAndClosedWhileOpening ==
  /\ LiveOf(0) # {} /\ closeTimer[0] # 0 /\ isOpen(State, 0)
  /\ \E o \in Ctls \ {0} : openTimer[o] # 0 /\ LiveOf(o) = {} /\ ~isOpen(State, o)

\* The pending timers of T that create a session.
OpeningsOf(T) == {T[p] : p \in OpenTimers(T)}

\* C18: on a controller with a live session, open() without forceReopen schedules no
\* session creation, creates no session and leaves the session that is live held and
\* live; and calling it again changes nothing more.
C18_OpenOnLiveSessionIsIdempotent ==
  LiveOf(0) # {} =>
    \A d \in Delays \cup {Undef} :
      LET S1 == ctlOpen(State, 0, d, FALSE, FALSE, "open")
      IN /\ OpeningsOf(S1.timers) = OpeningsOf(timers)
         /\ S1.openTimer = openTimer
         /\ S1.sess = sess /\ S1.holder = holder
         /\ ctlOpen(S1, 0, d, FALSE, FALSE, "open") = S1

\* open() was called on the first session while it was live: it cancelled the last
\* close() and left an earlier, overwritten close timer pending, and no opening was
\* scheduled.
C18_OpenCalledOnLiveSession ==
  /\ Len(sess) = 1 /\ sess[1].live /\ holder[0] = 1
  /\ closeTimer[0] = 0 /\ openTimer[0] = 0
  /\ Len(timers) = 1 /\ timers[1].kind = "close" /\ timers[1].late

\* C19: no session is constructed, its content produced and mounted, while the holder
\* of its controller still holds an earlier session: a reopening disposes the session
\* that exists before it builds the new one.
C19_OldSessionDisposedBeforeNewBuilt ==
  \A s \in Sessions : sess[s].prev = 0

\* C20: between two callbacks, the trigger of a controller carries 'weasel-popup-open'
\* exactly when the controller has a live session.
C20_OpenClassIffLiveSession ==
  \A o \in Ctls : openClass[o] <=> LiveOf(o) # {}

\* The timers T without the one at position p.
WithoutTimer(T, p) == SubSeq(T, 1, p - 1) \o SubSeq(T, p + 1, Len(T))

\* C21 as stated: when the content producer throws in an opening, no session is
\* created, the trigger carries no open marker, no session (hence no document click
\* listener) is live, and the controller is closed with no timer pending.
C21_ThrowLeavesControllerClosed ==
  [][\A p \in Pending : OpenThrowsAt(p) =>
       /\ sess' = sess
       /\ ~openClass'[timers[p].who]
       /\ \A s \in Sessions : ~sess'[s].live
       /\ holder'[timers[p].who] = 0
       /\ timers' = << >>]_vars

\* What does hold of C21: when the content producer throws in an opening, no session is
\* created and nothing but the timer that fired and _openTimer changes: the sessions, their
\* listeners, the markers, the holder and the other timers are as before the callback.
\* A controller that was closed with no other timer pending is closed, unmarked and
\* without pending timer afterwards.
ThrowLeavesControllerAsItWas ==
  [][\A p \in Pending : OpenThrowsAt(p) =>
       LET o == timers[p].who
       IN /\ sess' = sess /\ holder' = holder /\ openClass' = openClass
          /\ openTimer'[o] = 0 /\ closeTimer' = closeTimer
          /\ timers' = WithoutTimer(timers, p)
          /\ (holder[o] = 0 /\ Len(timers) = 1) =>
               /\ holder'[o] = 0 /\ timers' = << >> /\ ~openClass'[o]
               /\ \A s \in Sessions : ~sess'[s].live]_vars

\* C22: an exception of the content producer surfaces in the caller of open(), not
\* anywhere else.
C22_ExceptionReachesCallerOfOpen ==
  thrown \in {"", "caller"}

\* C23: the content of every session is mounted under the explicit element when
\* options.attach is one, else under the closest ancestor matching the selector, else
\* under the trigger's parent; a selector that matches no ancestor gives the parent.
C23_ContainerResolution ==
  \A s \in Sessions :
    sess[s].ctl = 0 =>
      sess[s].container = CASE attach = "element"   -> "element"
                            [] attach = "matching"  -> "ancestor"
                            [] attach = "unmatched" -> "parent"
                            [] attach = "none"      -> "parent"

\* C24: once a controller has been disposed, no session of it is live.
C24_DisposedControllerStaysClosed ==
  \A o \in Ctls : ctlDisposed[o] => LiveOf(o) = {}

\* C25: in every menu at most one child carries the selected class, and a child
\* carries it exactly when it is the menu's _selected.
C25_SelectedClassIsSelection ==
  \A s \in Sessions :
    /\ Cardinality(sess[s].selClass) <= 1
    /\ \A i \in 1..Len(layout) : i \in sess[s].selClass <=> sess[s].sel = i

\* The pointer has moved over the menu and the selection is a child that has a
\* selectable child before it: the selection was made or moved by keys or hover.
C25_SelectionMoved ==
  \E s \in Sessions :
    /\ sess[s].live /\ sess[s].armed /\ sess[s].sel # 0
    /\ \E j \in 1..(sess[s].sel - 1) : isSelectable(State, s, j)

\* The children of a menu the pointer can be on.
Children(s) == Targets(s) \ {0}

\* The menus over which the pointer has moved: their mouseover listener is installed.
Hovered == {s \in Visible : sess[s].armed}

\* C26 as stated: once the pointer has moved over an open menu, a hover on a selectable
\* child leaves that child selected and focused, and a hover on a child that is not
\* selectable leaves nothing selected and the menu container focused.
C26_HoverSelectsAndFocuses ==
  \A s \in Hovered : \A i \in Children(s) :
    LET S1 == onMouseOver(State, s, i)
    IN IF isSelectable(State, s, i)
       THEN S1.sess[s].sel = i /\ S1.focus = Loc(s, i)
       ELSE S1.sess[s].sel = 0 /\ S1.focus = Loc(s, 0)

\* C26, amended: such a hover leaves the selectable child selected, or nothing selected
\* for a child that is not selectable; the focus moves to the child, or to the menu
\* container, when the selection changes, and when it does not change the hover
\* changes nothing.
C26_HoverSelectsAndFocusesOnChange ==
  \A s \in Hovered : \A i \in Children(s) :
    LET S1   == onMouseOver(State, s, i)
        elem == IF isSelectable(State, s, i) THEN i ELSE 0
    IN /\ S1.sess[s].sel = elem
       /\ elem # sess[s].sel => S1.focus = Loc(s, elem)
       /\ elem = sess[s].sel => S1 = State

\* A hover selected and focused an item before the menu's deferred focus callback ran:
\* until then no key can reach the menu.
C26_HoverSelectedFirst ==
  \E s \in Hovered :
    /\ sess[s].sel # 0 /\ focus = Loc(s, sess[s].sel)
    /\ \E q \in Pending : timers[q].kind = "mount" /\ timers[q].who = s

\* C27: once the pointer has moved over an open menu, a hover whose target is the menu
\* container itself leaves nothing selected.
C27_HoverOnContainerDeselects ==
  \A s \in Hovered : onMouseOver(State, s, 0).sess[s].sel = 0

\* The submenu of menu s is open on the item that s has selected.
SubmenuOpenOnSelection(s) ==
  sess[s].sel # 0 /\ layout[sess[s].sel] = "sub" /\ LiveOf(s) # {}

\* C28: when the pointer leaves a menu that has an item selected, the menu is left
\* with nothing selected, unless the selected item has its submenu open: then the
\* handler changes nothing.
C28_MouseLeaveDeselects ==
  \A s \in Visible :
    sess[s].sel # 0 =>
      LET S1 == onMouseLeave(State, s)
      IN IF SubmenuOpenOnSelection(s) THEN S1 = State ELSE S1.sess[s].sel = 0

\* The pointer has left a menu for the submenu that is open on its selected item, and
\* moved there: the item is still selected.
C28_PointerInOpenSubmenu ==
  \E s \in Visible :
    /\ SubmenuOpenOnSelection(s)
    /\ \E m \in LiveOf(s) : sess[m].armed

\* The menu sessions that this step disposes, and those of them whose content holds
\* the focus before the step.
DisposedNow == {s \in Sessions : sess[s].menu /\ sess[s].live /\ ~sess'[s].live}
DisposedAroundFocus == {d \in DisposedNow : contentContains(State, d, focus)}

\* C29: a step that disposes the overlay of a menu moves the focus to the overlay's
\* trigger if the focus is inside the overlay's content (to the trigger of the
\* outermost such overlay when a chain is disposed), and leaves the focus where it is
\* if it is outside the content of every overlay disposed.
C29_FocusRestoredIffInside ==
  [][DisposedNow # {} =>
       IF DisposedAroundFocus # {}
       THEN LET top == CHOOSE d \in DisposedAroundFocus :
                         \A e \in DisposedAroundFocus : sess[d].level <= sess[e].level
            IN focus' = TriggerOf(sess[top].ctl)
       ELSE focus' = focus]_vars

\* The root menu was disposed while the focus was inside it: the focus is on its trigger.
C29_FocusBackOnTrigger ==
  /\ focus = RootTrigger
  /\ \E s \in Sessions : sess[s].menu /\ sess[s].ctl = 0 /\ ~sess[s].live

\* The selection of the menu of session o left the submenu item while the submenu was
\* open: the close that the item's menuItemSelected callback requested is pending.
DeselectPending(o) ==
  /\ holder[o] # 0
  /\ \E p \in 1..Len(timers) :
       timers[p].kind = "close" /\ timers[p].who = o /\ timers[p].why = "deselect"

\* C30: whenever the selection of the parent menu changes from the submenu item, its
\* submenu open, to another item or to none, that submenu is closed.
C30_DeselectClosesSubmenu ==
  \A o \in 1..MaxSessions : DeselectPending(o) ~> holder[o] = 0

\* A selection that leaves the submenu item while the submenu is open leaves a close of
\* the submenu pending, and the close that comes of it leaves the parent open.
DeselectRequestsClose ==
  [][\A s \in Sessions :
       /\ (sess[s].live /\ sess'[s].live /\ holder[s] # 0
            /\ sess[s].sel = SubIdx /\ sess'[s].sel # SubIdx)
          => (DeselectPending(s))'
       /\ (sess[s].live /\ ~sess'[s].live /\ sess'[s].by = "deselect")
          => sess'[sess[s].ctl].live]_vars

\* The selection left the submenu item of an open submenu.
DeselectWasPending == \E o \in 1..MaxSessions : DeselectPending(o)
\* C31: in every reachable state a live session of a submenu belongs to a controller
\* whose owning item is in the content of a live session: no submenu session is live,
\* or comes to life, once the session of its parent overlay is disposed.
C31_SubmenuLiveOnlyInLiveParent ==
  \A m \in Sessions :
    (sess[m].live /\ sess[m].ctl # 0) => sess[sess[m].ctl].live
\* The close that the wrapper of a menu requested of the menu's controller o on a click
\* is pending. For o > 0 the menu is the submenu of the menu of session o, and the click
\* was on an enabled item of that submenu.
ClickClosePending(o) ==
  \E p \in 1..Len(timers) :
    timers[p].kind = "close" /\ timers[p].who = o /\ timers[p].why = "click"

\* C32: a click on an enabled item of an open submenu invokes one action, and the
\* submenu and the menus above it up to the root are closed: a moment comes when no
\* session of the chain is live.
C32_SubmenuClickActsAndClosesAll ==
  /\ [][\A s \in Visible : \A i \in Targets(s) :
          (sess[s].level > 0 /\ isInSelectableItem(State, Loc(s, i)) /\ layout[i] # "sub"
           /\ ClickMenuAt(s, i))
          => /\ actions' = actions + 1
             /\ \A a \in Chain(State, s) : ClickClosePending(sess[a].ctl)']_vars
  /\ \A o \in 1..MaxSessions :
       ClickClosePending(o) ~>
         (holder[o] = 0 /\ \A a \in Sessions : a = o => ~sess[a].live)

\* The action of a submenu's item ran on a click and the click's own close request
\* ended the submenu's session; the root is closed as well.
C32_SubmenuItemClicked ==
  /\ actions = 1
  /\ \E m \in Sessions :
       sess[m].level = 1 /\ ~sess[m].live /\ sess[m].by = "click" /\ ~sess[sess[m].ctl].live
\* The first child of the menu of session s that is selectable; 0 if there is none.
FirstSelectable(s) ==
  LET sel == {i \in 1..Len(layout) : isSelectable(State, s, i)}
  IN IF sel = {} THEN 0 ELSE CHOOSE i \in sel : \A j \in sel : i <= j

SelectableAfter(s, i) ==
  LET n    == Len(layout)
      at(k) == ((i + k - 1) % n) + 1
      ks   == {k \in 1..n : isSelectable(State, s, at(k))}
  IN IF ks = {} THEN 0 ELSE at(CHOOSE k \in ks : \A j \in ks : k <= j)

StepAt(m, x) ==
  LET at == {i \in 1..Len(sess[m].teardown) : sess[m].teardown[i] = x}
  IN IF at = {} THEN 0 ELSE CHOOSE i \in at : \A j \in at : i <= j

\* C34: the teardown of a disposed menu session runs onRemove, then removes the content
\* from the document, then releases the position binding, then removes the document
\* click listener, then removes the marker class; the content object is disposed
\* after the content was removed.
C34_TeardownOrder ==
  \A m \in Sessions :
    (~sess[m].live /\ sess[m].menu) =>
      /\ 0 < StepAt(m, "onRemove")
      /\ StepAt(m, "onRemove") < StepAt(m, "remove")
      /\ StepAt(m, "remove") < StepAt(m, "popper")
      /\ StepAt(m, "popper") < StepAt(m, "clickListener")
      /\ StepAt(m, "clickListener") < StepAt(m, "openClass")
      /\ StepAt(m, "remove") < StepAt(m, "popupContent")

\* What the teardown does keep of that order: onRemove runs with the content still in
\* the document, and the content object is disposed after the content was removed.
TeardownAroundRemove ==
  \A m \in Sessions :
    (~sess[m].live /\ sess[m].menu) =>
      /\ 0 < StepAt(m, "onRemove")
      /\ StepAt(m, "onRemove") < StepAt(m, "remove")
      /\ StepAt(m, "remove") < StepAt(m, "popupContent")
\* How often step x was taken in the teardown of session m.
TimesRun(m, x) == Cardinality({i \in 1..Len(sess[m].teardown) : sess[m].teardown[i] = x})

\* The steps of the disposers that session m registered.
StepsOf(m) ==
  LET d == Disposers(sess[m])
  IN UNION {{d[i][j] : j \in 1..Len(d[i])} : i \in 1..Len(d)}

\* C35: whatever ends a session, and however many closing events meet it, its dispose()
\* is run once and with it onRemove and each registered disposer once; nothing of a live
\* session is torn down.
C35_DisposersRunOnce ==
  \A m \in Sessions :
    IF sess[m].live
    THEN sess[m].disposals = 0 /\ sess[m].teardown = << >>
    ELSE /\ sess[m].disposals = 1
         /\ \A x \in StepsOf(m) : TimesRun(m, x) = 1
         /\ Len(sess[m].teardown) = Cardinality(StepsOf(m))

\* A session that an outside click disposed while the close that was requested for it
\* is still to come.
C35_ClosedTwice ==
  \E m \in Sessions :
    /\ ~sess[m].live /\ sess[m].by = "outside"
    /\ \E p \in 1..Len(timers) : timers[p].kind = "close" /\ timers[p].from = m
\* C36: a click on the item that owns a submenu, the submenu open or not, leaves the
\* sessions and the pending timers of the submenu's controller and of the controller
\* of the menu the item is in as they are: nothing is opened, closed or scheduled.
C36_SubmenuItemClickChangesNothing ==
  \A s \in Visible :
    hasSubmenu =>
      LET S1 == menuClick(State, Loc(s, SubIdx))
          o  == sess[s].ctl
      IN /\ S1.timers = timers
         /\ S1.holder[s] = holder[s] /\ S1.holder[o] = holder[o]
         /\ S1.openTimer[s] = openTimer[s] /\ S1.closeTimer[s] = closeTimer[s]
         /\ S1.openTimer[o] = openTimer[o] /\ S1.closeTimer[o] = closeTimer[o]
         /\ Len(S1.sess) = Len(sess)
         /\ \A m \in Sessions : sess[m].ctl \in {s, o} => S1.sess[m].live = sess[m].live
         /\ S1.actions = actions

\* The submenu of a visible menu is open, and so is the menu: a click on the item
\* could close either.
C36_SubmenuOpenUnderItem ==
  \E s \in Visible : holder[s] # 0 /\ sess[holder[s]].live
\* C37: the mount callback of a menu runs on a live session or not at all: the disposal
\* of the session cancels it, so that it never acts on a menu that was torn down.
C37_MountRunsOnLiveSession ==
  [][\A p \in 1..Len(timers) :
       (timers[p].kind = "mount" /\ FireAt(p)) => sess[timers[p].who].live]_vars

\* The mount callback ran on a session that was disposed and never returned.
MountHungOnDisposedSession ==
  hung /\ \E m \in Sessions : ~sess[m].live /\ sess[m].selectOnOpen /\ sess[m].sel = 0

\* The options app(le), Apr(icot), avo(cado), all enabled.
ExampleItems == optionsOf({1, 2, 4}, {}, 1)

\* The positions of the enabled options whose lower-cased label starts with term.
MatchingTerm(items, term) ==
  {i \in 1..Len(items) :
     /\ ~items[i].disabled
     /\ Len(term) <= Len(toLowerCase(items[i].label))
     /\ \A j \in 1..Len(term) : toLowerCase(items[i].label)[j] = term[j]}

\* C38: add(c) of a one-character key extends the term by the lower-cased c, unless c
\* repeats a one-character term; it returns an enabled option whose lower-cased label
\* starts with the term, the first of them in option order when c did not repeat the
\* term, and nothing when there is none. A key name of more than one character returns
\* nothing and leaves the term, the cycle index and the timeout as they are. Typing a,
\* p, r on a fresh term over apple, apricot, avocado returns apple, apple, apricot.
C38_AddReturnsFirstMatch ==
  /\ \A char \in TypedKeys :
       LET K == add(keyState, char)
           c == toLowerCase(char)
           repeats == Len(keyState.term) = 1 /\ c = <<keyState.term[1]>>
           M == MatchingTerm(keyState.items, K.term)
       IN IF Len(char) > 1
            THEN /\ K.result = 0
                 /\ K.term = keyState.term /\ K.cycleIndex = keyState.cycleIndex
                 /\ K.timeoutId = keyState.timeoutId /\ K.elapsed = keyState.elapsed
            ELSE /\ K.term = IF repeats THEN keyState.term ELSE keyState.term \o c
                 /\ K.result # 0 => K.result \in M
                 /\ M = {} => K.result = 0
                 /\ (~repeats /\ M # {}) =>
                      K.result \in M /\ \A i \in M : K.result <= i
  /\ (keyState.items = ExampleItems /\ keyState.term = << >>) =>
       LET K1 == add(keyState, <<"a">>)
           K2 == add(K1, <<"p">>)
           K3 == add(K2, <<"r">>)
       IN K1.result = 1 /\ K2.result = 1 /\ K3.result = 2

\* a, p, r were typed over the three options, one after the other with no timeout in
\* between, and the second option came back.
C38_TypedApr ==
  /\ keyState.items = ExampleItems /\ keyState.presses = 3
  /\ keyState.term = <<"a", "p", "r">> /\ keyState.result = 2

\* A term that matches a disabled option only, and a named key pressed in mid-term.
C38_OnlyDisabledMatches ==
  /\ keyState.term # << >> /\ keyState.result = 0 /\ keyState.timeoutId
  /\ \E i \in 1..Len(keyState.items) :
       keyState.items[i].disabled
         /\ startsWith(toLowerCase(keyState.items[i].label), keyState.term)

\* The sessions of S and the holders are those of the current state.
SameSessions(S) ==
  /\ S.sess = sess /\ S.holder = holder
  /\ \A o \in Ctls : isOpen(S, o) = isOpen(State, o)

\* C39: open() and close() return with every session as it was and isOpen() answering
\* as before the call, whatever the delay (0, 200 ms or none given) and with or without
\* reopen; a session is created only by the callback of an open timer, and a session
\* that ends by a close() ends in the callback of that close()'s timer.
C39_OpenCloseOnlySchedule ==
  /\ [](\A o \in Ctls : \A d \in Delays \cup {Undef} :
         /\ SameSessions(ctlClose(State, o, d, "close"))
         /\ \A reopen \in BOOLEAN : SameSessions(ctlOpen(State, o, d, FALSE, reopen, "open")))
  /\ [][/\ Len(sess') > Len(sess) =>
            \E p \in 1..Len(timers) : timers[p].kind = "open" /\ FireAt(p)
        /\ \A s \in Sessions :
             (sess[s].live /\ ~sess'[s].live /\ sess'[s].by \notin {"outside", "replaced", "owner"})
               => \E p \in 1..Len(timers) :
                    /\ timers[p].kind = "close" /\ timers[p].who = sess[s].ctl
                    /\ timers[p].why = sess'[s].by /\ FireAt(p)]_vars

\* close() was called with the delay 0 and has returned: its timer is pending, and the
\* session is live and in the holder.
C39_CloseZeroPending ==
  \E p \in 1..Len(timers) :
    /\ timers[p].kind = "close" /\ timers[p].delay = 0 /\ closeTimer[timers[p].who] = timers[p].id
    /\ holder[timers[p].who] # 0 /\ sess[holder[timers[p].who]].live

\* open() was called with the delay 0 on a closed controller and has returned: its
\* timer is pending and there is no session.
C39_OpenZeroPending ==
  \E p \in 1..Len(timers) :
    /\ timers[p].kind = "open" /\ timers[p].delay = 0 /\ openTimer[timers[p].who] = timers[p].id
    /\ holder[timers[p].who] = 0
====
